---- MODULE Spec2Model ----
(***************************************************************************)
(* Model of the HERMES messaging service: the HTTP handlers of             *)
(* router/handlers/handlers.go and the MongoDB access-control store of the *)
(* models package, with the authentication check and the Redis identity    *)
(* cache they call.                                                        *)
(*                                                                         *)
(* Every request is one sequence of blocking calls (cache, verification    *)
(* endpoint, document store); requests run concurrently and interleave at  *)
(* those calls.                                                            *)
(***************************************************************************)
EXTENDS Integers, Sequences, FiniteSets, TLC

(***************************************************************************)
(* Bounds of the model.                                                    *)
(***************************************************************************)
\* Requests started in one behaviour.
MaxReqs == 2
\* Length of the member list of a group-conversation request body.
MaxMembers == 2
\* Lower-level store/cache failures injected in one behaviour.
MaxFaults == 1
\* Times the verification endpoint's password hash of a client changes.
MaxRotations == 1
\* Direct calls of MongoDBInterface methods in one behaviour.
MaxCalls == 3

(***************************************************************************)
(* The world outside the service.                                          *)
(***************************************************************************)
\* Client identities the verification endpoint knows.
Clients == {"u1", "u2"}

\* Tokens presented in the "token" header.  "??" does not match the
\* configured format; "tX" is well formed and rejected by the endpoint;
\* "tA" and "tB" are two credentials of the same client.
Tokens == {"tA", "tB", "tC", "tX", "??"}

\* External user handles a request body may name.
Handles == {"a", "b", "c", "ghost"}

NoValue == "<none>"

\* checkers.IsTokenValid: the configured pattern match.
IsTokenValid(token) == token # "??"

\* The client a credential belongs to at the verification endpoint.
TokenClient(token) ==
    CASE token = "tA" -> "u1"
      [] token = "tB" -> "u1"
      [] token = "tC" -> "u2"
      [] OTHER -> NoValue

\* Redis hash "mapping:<handle>", field internalWaveUserID.
MappingOf(handle) ==
    CASE handle = "a" -> "u2"
      [] handle = "b" -> "u1"
      [] handle = "c" -> "u2"
      [] OTHER -> NoValue

\* Redis.Exists("mapping:" + member)
RedisExists(handle) == MappingOf(handle) # NoValue

\* Redis.HGet("mapping:" + member, "internalWaveUserID")
RedisHGet(handle) == MappingOf(handle)

(***************************************************************************)
(* The models package: documents and the MongoDB access-control store.     *)
(* A collection is the sequence of its documents in insertion order.  A    *)
(* store call returns the collection it leaves and its error; "fail" is    *)
(* the lower-level failure of the call (connection, timeout).              *)
(***************************************************************************)
Nil == "nil"
ErrUnavailable == "Unavailable"
ErrDuplicateKey == "Conflict"

\* models.GroupConversationTopicPath
GroupConversationTopicPath == "conversations/groups/"

\* models.NewVerneMQACL: the record of a client with the default ACLs.
NewVerneMQACL(clientID, username, password) ==
    [client_id |-> clientID, username |-> username, passhash |-> password,
     publish_acl |-> << >>, subscribe_acl |-> << >>]

\* models.NewGroupConversation
NewGroupConversation(id, name, members) ==
    [id |-> id, name |-> name, members |-> members]

\* Index of the first document of coll whose client_id is userID, 0 if none.
RECURSIVE FindFrom(_, _, _)
FindFrom(coll, userID, i) ==
    IF i > Len(coll) THEN 0
    ELSE IF coll[i].client_id = userID THEN i
    ELSE FindFrom(coll, userID, i + 1)

FindOne(coll, userID) == FindFrom(coll, userID, 1)

\* One element of an update document: $push appends to an array field,
\* $set replaces a field.
ApplyModifier(doc, m) ==
    IF m.op = "$push"
    THEN [doc EXCEPT ![m.field] = Append(@, m.value)]
    ELSE [doc EXCEPT ![m.field] = m.value]

RECURSIVE ApplyUpdate(_, _)
ApplyUpdate(doc, update) ==
    IF update = << >> THEN doc
    ELSE ApplyUpdate(ApplyModifier(doc, Head(update)), Tail(update))

\* Collection.InsertOne on vmq_acl_auth.  The collection is created with no
\* index of its own; "unique" is whether the database holds a unique index
\* on client_id.
InsertOneACL(coll, doc, unique, fail) ==
    IF fail THEN [coll |-> coll, err |-> ErrUnavailable]
    ELSE IF unique /\ FindOne(coll, doc.client_id) # 0
    THEN [coll |-> coll, err |-> ErrDuplicateKey]
    ELSE [coll |-> Append(coll, doc), err |-> Nil]

\* Collection.InsertOne on groupConversations.
InsertOneGroup(coll, doc, fail) ==
    IF fail THEN [coll |-> coll, err |-> ErrUnavailable]
    ELSE [coll |-> Append(coll, doc), err |-> Nil]

\* An UpdateOne that inserts the document it does not find (upsert).
UpdateOneUpsert(coll, userID, update, fail) ==
    IF fail THEN [coll |-> coll, err |-> ErrUnavailable]
    ELSE LET i == FindOne(coll, userID) IN
         IF i = 0
         THEN [coll |-> Append(coll, ApplyUpdate(NewVerneMQACL(userID, NoValue, -1),
                                                 update)),
               err |-> Nil]
         ELSE [coll |-> [coll EXCEPT ![i] = ApplyUpdate(@, update)], err |-> Nil]

\* Collection.UpdateOne with filter {client_id: userID}: the first matching
\* document is updated; no match is no error.
UpdateOne(coll, userID, update, fail) ==
    IF fail THEN [coll |-> coll, err |-> ErrUnavailable]
    ELSE LET i == FindOne(coll, userID) IN
         IF i = 0 THEN [coll |-> coll, err |-> Nil]
         ELSE [coll |-> [coll EXCEPT ![i] = ApplyUpdate(@, update)], err |-> Nil]

\* MongoDB.AddGroupConversation
AddGroupConversationDB(coll, groupConversation, fail) ==
    InsertOneGroup(coll, groupConversation, fail)

\* MongoDB.AddProfileACL
AddProfileACL(coll, verneMQACL, unique, fail) ==
    InsertOneACL(coll, verneMQACL, unique, fail)

\* An AuthorizePublishing that adds the topic as to a set ($addToSet).
AuthorizePublishingAddToSet(coll, userID, topic, fail) ==
    IF fail THEN [coll |-> coll, err |-> ErrUnavailable]
    ELSE LET i == FindOne(coll, userID) IN
         IF i = 0 THEN [coll |-> coll, err |-> Nil]
         ELSE IF \E j \in 1 .. Len(coll[i].publish_acl) :
                    coll[i].publish_acl[j].pattern = topic
         THEN [coll |-> coll, err |-> Nil]
         ELSE [coll |-> [coll EXCEPT ![i].publish_acl =
                            Append(@, [kind |-> "string", pattern |-> topic])],
               err |-> Nil]

\* MongoDB.AuthorizePublishing
AuthorizePublishing(coll, userID, topic, fail) ==
    UpdateOne(coll, userID,
              << [op |-> "$push", field |-> "publish_acl",
                  value |-> [kind |-> "string", pattern |-> topic]] >>,
              fail)

\* The update document UpdateProfilesWithGroupACL sends for one member.
GroupACLUpdate(groupID, userID) ==
    << [op |-> "$push", field |-> "publish_acl",
        value |-> [kind |-> "doc",
                   pattern |-> GroupConversationTopicPath \o groupID \o "/" \o userID]],
       [op |-> "$push", field |-> "subscribe_acl",
        value |-> [kind |-> "doc",
                   pattern |-> GroupConversationTopicPath \o groupID \o "/+"]] >>

\* The array a without the grants of the group conversation groupID.
WithoutGroup(a, groupID, userIDs) ==
    SelectSeq(a, LAMBDA g :
        g.pattern \notin
            ({GroupConversationTopicPath \o groupID \o "/" \o c : c \in userIDs}
             \cup {GroupConversationTopicPath \o groupID \o "/+"}))

\* A loop iteration that compensates: when its UpdateOne fails, the grants
\* of the group conversation made so far are taken back.
GroupACLStepRollback(coll, groupConversation, k, fail) ==
    IF fail
    THEN [coll |-> [i \in 1 .. Len(coll) |->
                      [coll[i] EXCEPT
                         !.publish_acl = WithoutGroup(@, groupConversation.id,
                                             {groupConversation.members[j] :
                                                j \in 1 .. Len(groupConversation.members)}),
                         !.subscribe_acl = WithoutGroup(@, groupConversation.id, {})]],
          err |-> ErrUnavailable]
    ELSE UpdateOne(coll, groupConversation.members[k],
                   GroupACLUpdate(groupConversation.id, groupConversation.members[k]),
                   fail)

\* One iteration of the loop of MongoDB.UpdateProfilesWithGroupACL.
GroupACLStep(coll, groupConversation, k, fail) ==
    UpdateOne(coll, groupConversation.members[k],
              GroupACLUpdate(groupConversation.id, groupConversation.members[k]),
              fail)

\* MongoDB.UpdateProfilesWithGroupACL run to its return; failAt is the
\* iteration whose UpdateOne fails (0: none).
RECURSIVE GroupACLLoop(_, _, _, _)
GroupACLLoop(coll, groupConversation, k, failAt) ==
    IF k > Len(groupConversation.members) THEN [coll |-> coll, err |-> Nil]
    ELSE LET r == GroupACLStep(coll, groupConversation, k, k = failAt) IN
         IF r.err # Nil THEN r
         ELSE GroupACLLoop(r.coll, groupConversation, k + 1, failAt)

UpdateProfilesWithGroupACL(coll, groupConversation, failAt) ==
    GroupACLLoop(coll, groupConversation, 1, failAt)

\* An UpdatePassHash that inserts the record it does not find (upsert).
UpdatePassHashUpsert(coll, userID, newPasshash, fail) ==
    IF fail THEN [coll |-> coll, err |-> ErrUnavailable]
    ELSE LET i == FindOne(coll, userID) IN
         IF i = 0
         THEN [coll |-> Append(coll, NewVerneMQACL(userID, NoValue, newPasshash)),
               err |-> Nil]
         ELSE [coll |-> [coll EXCEPT ![i].passhash = newPasshash], err |-> Nil]

\* MongoDB.UpdatePassHash
UpdatePassHash(coll, userID, newPasshash, fail) ==
    UpdateOne(coll, userID,
              << [op |-> "$set", field |-> "passhash", value |-> newPasshash] >>,
              fail)

(***************************************************************************)
(* auth.CheckAuthentication: the authentication reconciler.                *)
(***************************************************************************)
\* The cache holds nothing for a token.
NoEntry == [clientID |-> NoValue, passhash |-> -1]

\* MQTTAuthInfos of a request that has none.
NoInfo == [ClientID |-> NoValue, Username |-> NoValue, Password |-> -1]

UsernameOf(clientID) == "name-" \o clientID

\* The verification endpoint: the identity of a credential, given the
\* password hash it holds for every client now; an error for a credential
\* it rejects.
Verify(token, hashes) ==
    IF TokenClient(token) = NoValue
    THEN [err |-> "InvalidCredential", info |-> NoInfo]
    ELSE [err |-> Nil,
          info |-> [ClientID |-> TokenClient(token),
                    Username |-> UsernameOf(TokenClient(token)),
                    Password |-> hashes[TokenClient(token)]]]

\* The cache entry that holds the identity the endpoint returned.
EntryOf(info) == [clientID |-> info.ClientID, passhash |-> info.Password]

\* A reconciler that writes the endpoint's answer to the cache before it
\* looks the credential up: a credential never seen is reported Cached.
ReconcileWriteFirst(entry, v) ==
    IF v.err # Nil
    THEN [outcome |-> "Error", info |-> NoInfo, write |-> NoEntry]
    ELSE IF entry # NoEntry /\ entry # EntryOf(v.info)
    THEN [outcome |-> "Updated", info |-> v.info,
          write |-> EntryOf(v.info)]
    ELSE [outcome |-> "Cached", info |-> v.info,
          write |-> EntryOf(v.info)]

\* A reconciler that reports changed fields and leaves the stale entry in
\* the cache.
ReconcileKeepStale(entry, v) ==
    IF v.err # Nil
    THEN [outcome |-> "Error", info |-> NoInfo, write |-> NoEntry]
    ELSE IF entry = NoEntry
    THEN [outcome |-> "Fresh", info |-> v.info,
          write |-> EntryOf(v.info)]
    ELSE IF entry # EntryOf(v.info)
    THEN [outcome |-> "Updated", info |-> v.info, write |-> NoEntry]
    ELSE [outcome |-> "Cached", info |-> v.info, write |-> NoEntry]

\* The decision of the reconciler once the cache has been read (entry) and
\* the endpoint has answered (v): the outcome, the identity handed to the
\* caller and the cache entry to write (NoEntry: no cache write).  The
\* endpoint is asked on every request: on a hit its answer is what tells
\* unchanged fields (Cached) from changed ones (Updated).
Reconcile(entry, v) ==
    IF entry = NoEntry
    THEN IF v.err # Nil
         THEN [outcome |-> "Error", info |-> NoInfo, write |-> NoEntry]
         ELSE [outcome |-> "Fresh", info |-> v.info,
               write |-> [clientID |-> v.info.ClientID, passhash |-> v.info.Password]]
    ELSE IF v.err # Nil
         THEN [outcome |-> "Error", info |-> NoInfo, write |-> NoEntry]
         ELSE IF entry.passhash # v.info.Password \/ entry.clientID # v.info.ClientID
         THEN [outcome |-> "Updated", info |-> v.info,
               write |-> [clientID |-> v.info.ClientID, passhash |-> v.info.Password]]
         ELSE [outcome |-> "Cached", write |-> NoEntry,
               info |-> [ClientID |-> entry.clientID,
                         Username |-> UsernameOf(entry.clientID),
                         Password |-> entry.passhash]]

\* The four results of CheckAuthentication as the handlers bind them.
WasCached(outcome) == outcome = "Cached"
WasTokenUpdated(outcome) == outcome = "Updated"
AuthErr(outcome) == outcome = "Error"

(***************************************************************************)
(* router/handlers: the pure parts of the handlers.                        *)
(***************************************************************************)
CodeSuccess == "CodeSuccess"
CodeInvalidToken == "CodeInvalidToken"
CodeUpdated == "CodeUpdated"
CodeAlreadyExists == "CodeAlreadyExists"
CodeInvalidJSON == "CodeInvalidJSON"

\* The error of checkers.IsTokenValid, returned as it is.
ErrChecker == "IsTokenValidError"

NoConv == [id |-> NoValue, name |-> NoValue, members |-> << >>]

\* The member loop of AddGroupConversation.  tmp is reqBody.Members[:0], a
\* slice over the array the loop ranges over: arr is that array and n the
\* length of tmp.  failPos/failCall name the Redis call that fails
\* (failPos = 0: none).
RECURSIVE ResolveLoop(_, _, _, _, _, _)
ResolveLoop(arr, i, n, clientID, failPos, failCall) ==
    IF i > Len(arr) THEN [err |-> Nil, members |-> SubSeq(arr, 1, n)]
    ELSE IF failPos = i /\ failCall = "Exists"
    THEN [err |-> CodeInvalidJSON, members |-> << >>]
    ELSE IF ~RedisExists(arr[i])
    THEN ResolveLoop(arr, i + 1, n, clientID, failPos, failCall)
    ELSE IF failPos = i /\ failCall = "HGet"
    THEN [err |-> CodeInvalidJSON, members |-> << >>]
    ELSE IF RedisHGet(arr[i]) # clientID
    THEN ResolveLoop([arr EXCEPT ![n + 1] = RedisHGet(arr[i])], i + 1, n + 1,
                     clientID, failPos, failCall)
    ELSE ResolveLoop(arr, i + 1, n, clientID, failPos, failCall)

ResolveMembers(handles, clientID, failPos, failCall) ==
    ResolveLoop(handles, 1, 0, clientID, failPos, failCall)

\* append(reqBody.Members, MQTTAuthInfos.ClientID)
GroupMembers(resolved, clientID) == Append(resolved, clientID)

\* The member loop without the doesExist test: HGet is called for every
\* handle and whatever it returns is kept.
AfterExistsNoTest(doesExist, fail) ==
    IF fail THEN "error" ELSE "hget"

\* The member loop after Redis.Exists has returned: leave with the error,
\* go on to HGet, or take the next member.
AfterExists(doesExist, fail) ==
    IF fail THEN "error"
    ELSE IF doesExist THEN "hget"
    ELSE "next"

\* The member loop with the error of HGet ignored, as GetMappingForUsers
\* ignores it: the handle is skipped.
AfterHGetIgnoreErr(arr, n, internalWaveUserID, clientID, fail) ==
    IF fail THEN [err |-> Nil, arr |-> arr, n |-> n]
    ELSE IF internalWaveUserID # clientID
    THEN [err |-> Nil, arr |-> [arr EXCEPT ![n + 1] = internalWaveUserID], n |-> n + 1]
    ELSE [err |-> Nil, arr |-> arr, n |-> n]

\* The member loop after Redis.HGet has returned: leave with the error, or
\* append the value to tmp unless it is the requester's own clientID.  arr
\* is the array tmp shares with reqBody.Members and n the length of tmp.
AfterHGet(arr, n, internalWaveUserID, clientID, fail) ==
    IF fail THEN [err |-> CodeInvalidJSON, arr |-> arr, n |-> n]
    ELSE IF internalWaveUserID # clientID
    THEN [err |-> Nil, arr |-> [arr EXCEPT ![n + 1] = internalWaveUserID], n |-> n + 1]
    ELSE [err |-> Nil, arr |-> arr, n |-> n]

\* AddVerneMQACL without its test of the error of CheckAuthentication.
AddVerneMQACLAfterAuthNoErr(outcome) ==
    IF WasTokenUpdated(outcome) THEN CodeUpdated
    ELSE IF WasCached(outcome) THEN CodeAlreadyExists
    ELSE ""

\* AddVerneMQACL without its wasCached test.
AddVerneMQACLAfterAuthNoCached(outcome) ==
    IF AuthErr(outcome) THEN CodeInvalidToken
    ELSE IF WasTokenUpdated(outcome) THEN CodeUpdated
    ELSE ""

\* Where AddVerneMQACL goes after CheckAuthentication: the response code it
\* returns, or "" to go on to AddProfileACL.
AddVerneMQACLAfterAuth(outcome) ==
    IF AuthErr(outcome) THEN CodeInvalidToken
    ELSE IF WasTokenUpdated(outcome) THEN CodeUpdated
    ELSE IF WasCached(outcome) THEN CodeAlreadyExists
    ELSE ""

\* Where AddGroupConversation and GetMappingForUsers go after
\* CheckAuthentication: only the error is looked at.
OtherAfterAuth(outcome) ==
    IF AuthErr(outcome) THEN CodeInvalidToken ELSE ""

\* The code AddVerneMQACL returns after AddProfileACL.
AddVerneMQACLResult(err) ==
    IF err # Nil THEN CodeInvalidToken ELSE CodeSuccess

\* The code AddGroupConversation returns after the two store calls: err is
\* assigned by AddGroupConversation and then by UpdateProfilesWithGroupACL.
AddGroupConversationResult(errInsert, errUpdate) ==
    LET err == errUpdate IN
    IF err # Nil THEN CodeInvalidToken ELSE CodeSuccess

(***************************************************************************)
(* State.                                                                  *)
(***************************************************************************)
VARIABLES
    uniqueIdx,  \* the database holds a unique index on vmq_acl_auth.client_id
    acl,        \* MongoDB.VerneMQACLCollection
    groups,     \* MongoDB.GroupConversationCollection
    cache,      \* Redis: the identity cached for every token
    ext,        \* the verification endpoint: password hash of every client
    faults,     \* lower-level failures injected so far
    req,        \* the requests: position and locals of every handler run
    sent,       \* history: the body every AddGroupConversation run received
    lastCall    \* history: the last direct call of a MongoDBInterface method

vars == <<uniqueIdx, acl, groups, cache, ext, faults, req, sent, lastCall>>

Reqs == 1 .. MaxReqs

Handlers == {"AddVerneMQACL", "AddGroupConversation", "GetMappingForUsers"}

Bodies == UNION {[1 .. n -> Handles] : n \in 0 .. MaxMembers}

\* No body received: not decoded, no member handles.
NoBody == [decoded |-> FALSE, members |-> << >>]

\* No MongoDBInterface method has been called directly.
NoCall ==
    [n |-> 0, method |-> NoValue, userID |-> NoValue, topic |-> NoValue,
     passhash |-> -1, members |-> << >>, err |-> Nil]

\* A request nobody has sent yet.  arr, i and n are the locals of the
\* member loop: the array of reqBody.Members, the position of the loop and
\* the length of tmp.
IdleReq ==
    [handler |-> NoValue, token |-> NoValue, pc |-> "idle", seen |-> NoEntry,
     info |-> NoInfo, outcome |-> "none", conv |-> NoConv,
     k |-> 0, errInsert |-> Nil, resp |-> "none", calls |-> {},
     arr |-> << >>, i |-> 0, n |-> 0]

GroupIDOf(r) == "g" \o ToString(r)

Init ==
    /\ uniqueIdx \in BOOLEAN
    /\ acl = << >>
    /\ groups = << >>
    /\ cache = [t \in Tokens |-> NoEntry]
    /\ ext = [c \in Clients |-> 0]
    /\ faults = 0
    /\ req = [r \in Reqs |-> IdleReq]
    /\ sent = [r \in Reqs |-> NoBody]
    /\ lastCall = NoCall

\* The request ends: the handler returns code (CustomHandle writes it).
Return(r, code) ==
    [req[r] EXCEPT !.pc = "done", !.resp = code, !.seen = NoEntry,
                   !.arr = << >>, !.i = 0, !.n = 0]

MayFail(fail) == fail => faults < MaxFaults
CountFault(fail) == faults' = IF fail THEN faults + 1 ELSE faults

(***************************************************************************)
(* Every handler: the token is read from the header and checked against    *)
(* the format; auth.CheckAuthentication starts and reads the cache.        *)
(***************************************************************************)
Start(r, handler, token, fail) ==
    /\ req[r].pc = "idle"
    /\ IF r = 1 THEN TRUE ELSE req[r - 1].pc # "idle"
    /\ MayFail(fail)
    /\ req' = [req EXCEPT ![r] =
                 IF fail
                 THEN [IdleReq EXCEPT !.handler = handler, !.token = token,
                                      !.pc = "done", !.resp = ErrChecker]
                 ELSE IF ~IsTokenValid(token)
                 THEN [IdleReq EXCEPT !.handler = handler, !.token = token,
                                      !.pc = "done", !.resp = CodeInvalidToken]
                 ELSE [IdleReq EXCEPT !.handler = handler, !.token = token,
                                      !.pc = "verify", !.seen = cache[token]]]
    /\ CountFault(fail)
    /\ UNCHANGED <<uniqueIdx, acl, groups, cache, ext, sent, lastCall>>

\* The handler of request r once CheckAuthentication has returned outcome
\* and info: the test of its results, and for AddGroupConversation and
\* GetMappingForUsers the decoding of the body, up to the next blocking
\* call.
AfterAuth(r, outcome, info, decodes, body) ==
    LET q == [req[r] EXCEPT !.outcome = outcome, !.info = info, !.seen = NoEntry]
        code == IF req[r].handler = "AddVerneMQACL"
                THEN AddVerneMQACLAfterAuth(outcome)
                ELSE OtherAfterAuth(outcome)
        end(c) == [q EXCEPT !.pc = "done", !.resp = c]
    IN IF code # "" THEN end(code)
       ELSE IF req[r].handler = "AddVerneMQACL" THEN [q EXCEPT !.pc = "seed"]
       ELSE IF ~decodes THEN end(CodeInvalidJSON)
       ELSE IF req[r].handler = "GetMappingForUsers"
       THEN IF body = << >> THEN end(CodeSuccess)
            ELSE [q EXCEPT !.pc = "mapping", !.arr = body, !.i = 1]
       ELSE IF body = << >> THEN [q EXCEPT !.pc = "insert"]
       ELSE [q EXCEPT !.pc = "exists", !.arr = body, !.i = 1]

\* The step of request r reads a body.
ReadsBody(r) ==
    /\ req[r].handler # "AddVerneMQACL"
    /\ req[r].pc \in {"verify", "cachewrite"}
    /\ req'[r].pc # "cachewrite"
    /\ OtherAfterAuth(req'[r].outcome) = ""

\* Inputs that are not read take one value.
BodyRead(r, d, decodes, body) ==
    /\ ~decodes => body = << >>
    /\ (req[r].handler = "AddVerneMQACL" \/ AuthErr(d.outcome))
          => decodes /\ body = << >>

(***************************************************************************)
(* auth.CheckAuthentication goes on: the endpoint answers and the          *)
(* reconciler decides.  With a cache entry to write the next call is the   *)
(* cache write; with none CheckAuthentication returns and the handler      *)
(* goes on.                                                                *)
(***************************************************************************)
AuthVerify(r, decodes, body) ==
    /\ req[r].pc = "verify"
    /\ LET d == Reconcile(req[r].seen, Verify(req[r].token, ext))
       IN /\ IF d.write # NoEntry THEN decodes /\ body = << >>
             ELSE BodyRead(r, d, decodes, body)
          /\ req' = [req EXCEPT ![r] =
                       IF d.write # NoEntry
                       THEN [@ EXCEPT !.outcome = d.outcome, !.info = d.info,
                                      !.pc = "cachewrite"]
                       ELSE AfterAuth(r, d.outcome, d.info, decodes, body)]
    /\ UNCHANGED <<uniqueIdx, acl, groups, cache, ext, faults, lastCall>>

(***************************************************************************)
(* auth.CheckAuthentication ends: the identity the endpoint gave is        *)
(* written to the cache, and the handler goes on.                          *)
(***************************************************************************)
CacheWrite(r, decodes, body) ==
    /\ req[r].pc = "cachewrite"
    /\ BodyRead(r, [outcome |-> req[r].outcome], decodes, body)
    /\ cache' = [cache EXCEPT ![req[r].token] = EntryOf(req[r].info)]
    /\ req' = [req EXCEPT ![r] =
                 AfterAuth(r, req[r].outcome, req[r].info, decodes, body)]
    /\ UNCHANGED <<uniqueIdx, acl, groups, ext, faults, lastCall>>

(***************************************************************************)
(* AddVerneMQACL: NewVerneMQACL, AddProfileACL, response.                  *)
(***************************************************************************)
Seed(r, fail) ==
    /\ req[r].pc = "seed"
    /\ MayFail(fail)
    /\ LET verneMQACL == NewVerneMQACL(req[r].info.ClientID, req[r].info.Username,
                                       req[r].info.Password)
           res == AddProfileACL(acl, verneMQACL, uniqueIdx, fail)
       IN /\ acl' = res.coll
          /\ req' = [req EXCEPT ![r] =
                       [Return(r, AddVerneMQACLResult(res.err))
                          EXCEPT !.calls = @ \cup {"AddProfileACL"},
                                 !.errInsert = res.err]]
    /\ CountFault(fail)
    /\ UNCHANGED <<uniqueIdx, groups, cache, ext, sent, lastCall>>

\* The member loop of request r takes its next member: the next call is
\* Exists for it, or after the last member the insert of the group.
NextMember(q) ==
    IF q.i = Len(q.arr) THEN [q EXCEPT !.pc = "insert"]
    ELSE [q EXCEPT !.pc = "exists", !.i = @ + 1]

(***************************************************************************)
(* AddGroupConversation, member loop: Redis.Exists for the member at i.    *)
(***************************************************************************)
Exists(r, fail) ==
    /\ req[r].pc = "exists"
    /\ MayFail(fail)
    /\ LET to == AfterExists(RedisExists(req[r].arr[req[r].i]), fail)
       IN req' = [req EXCEPT ![r] =
                    CASE to = "error" -> Return(r, CodeInvalidJSON)
                      [] to = "hget" -> [@ EXCEPT !.pc = "hget"]
                      [] OTHER -> NextMember(req[r])]
    /\ CountFault(fail)
    /\ UNCHANGED <<uniqueIdx, acl, groups, cache, ext, sent, lastCall>>

(***************************************************************************)
(* AddGroupConversation, member loop: Redis.HGet for the member at i.      *)
(***************************************************************************)
HGet(r, fail) ==
    /\ req[r].pc = "hget"
    /\ MayFail(fail)
    /\ LET res == AfterHGet(req[r].arr, req[r].n, RedisHGet(req[r].arr[req[r].i]),
                            req[r].info.ClientID, fail)
       IN req' = [req EXCEPT ![r] =
                    IF res.err # Nil THEN Return(r, res.err)
                    ELSE NextMember([req[r] EXCEPT !.arr = res.arr, !.n = res.n])]
    /\ CountFault(fail)
    /\ UNCHANGED <<uniqueIdx, acl, groups, cache, ext, sent, lastCall>>

(***************************************************************************)
(* AddGroupConversation: reqBody.Members = tmp, the group conversation is  *)
(* built and env.MongoDB.AddGroupConversation(groupConv) is called.        *)
(***************************************************************************)
Persist(r, fail) ==
    /\ req[r].pc = "insert"
    /\ MayFail(fail)
    /\ LET conv == NewGroupConversation(GroupIDOf(r), "name",
                       GroupMembers(SubSeq(req[r].arr, 1, req[r].n),
                                    req[r].info.ClientID))
           ins == AddGroupConversationDB(groups, conv, fail)
       IN /\ groups' = ins.coll
          /\ req' = [req EXCEPT ![r].errInsert = ins.err, ![r].pc = "fanout",
                                ![r].k = 1, ![r].conv = conv,
                                ![r].arr = << >>, ![r].i = 0, ![r].n = 0,
                                ![r].calls = @ \cup {"AddGroupConversation"}]
    /\ CountFault(fail)
    /\ UNCHANGED <<uniqueIdx, acl, cache, ext, sent, lastCall>>

(***************************************************************************)
(* AddGroupConversation: one iteration of UpdateProfilesWithGroupACL, and  *)
(* after its return the response of the handler.                           *)
(***************************************************************************)
Fanout(r, fail) ==
    /\ req[r].pc = "fanout"
    /\ MayFail(fail)
    /\ LET res == GroupACLStep(acl, req[r].conv, req[r].k, fail)
           last == req[r].k = Len(req[r].conv.members)
       IN /\ acl' = res.coll
          /\ req' = [req EXCEPT ![r] =
                       IF res.err # Nil \/ last
                       THEN [Return(r, AddGroupConversationResult(req[r].errInsert, res.err))
                               EXCEPT !.calls = @ \cup {"UpdateProfilesWithGroupACL"}]
                       ELSE [@ EXCEPT !.k = @ + 1,
                                      !.calls = @ \cup {"UpdateProfilesWithGroupACL"}]]
    /\ CountFault(fail)
    /\ UNCHANGED <<uniqueIdx, groups, cache, ext, sent, lastCall>>

(***************************************************************************)
(* GetMappingForUsers: Redis.HGet for the user at i, its error ignored;    *)
(* after the last one the mappings are written as the response.            *)
(***************************************************************************)
MappingHGet(r, fail) ==
    /\ req[r].pc = "mapping"
    /\ MayFail(fail)
    /\ req' = [req EXCEPT ![r] =
                 IF req[r].i = Len(req[r].arr) THEN Return(r, CodeSuccess)
                 ELSE [@ EXCEPT !.i = @ + 1]]
    /\ CountFault(fail)
    /\ UNCHANGED <<uniqueIdx, acl, groups, cache, ext, sent, lastCall>>

(***************************************************************************)
(* The verification endpoint: the password hash of a client is rotated.    *)
(* Hashes are only compared with one another, so a rotation before the     *)
(* endpoint has given the client's hash to any request changes no          *)
(* comparison: the client has a cached credential or a request holds its   *)
(* identity.                                                               *)
(***************************************************************************)
Rotate(c) ==
    /\ ext[c] < MaxRotations
    /\ \/ \E t \in Tokens : cache[t].clientID = c
       \/ \E r \in Reqs : req[r].info.ClientID = c
    /\ ext' = [ext EXCEPT ![c] = @ + 1]
    /\ UNCHANGED <<uniqueIdx, acl, groups, cache, faults, req, sent, lastCall>>

Next ==
    \/ \E r \in Reqs : /\ req[r].pc = "idle"
                       /\ \E h \in Handlers, t \in Tokens, fail \in BOOLEAN :
                             Start(r, h, t, fail)
    \/ \E r \in Reqs : /\ req[r].pc = "verify"
                       /\ \E decodes \in BOOLEAN, body \in Bodies :
                             AuthVerify(r, decodes, body) /\ UNCHANGED sent
    \/ \E r \in Reqs : /\ req[r].pc = "cachewrite"
                       /\ \E decodes \in BOOLEAN, body \in Bodies :
                             CacheWrite(r, decodes, body) /\ UNCHANGED sent
    \/ \E r \in Reqs : /\ req[r].pc = "seed"
                       /\ \E fail \in BOOLEAN : Seed(r, fail)
    \/ \E r \in Reqs : /\ req[r].pc = "exists"
                       /\ \E fail \in BOOLEAN : Exists(r, fail)
    \/ \E r \in Reqs : /\ req[r].pc = "hget"
                       /\ \E fail \in BOOLEAN : HGet(r, fail)
    \/ \E r \in Reqs : /\ req[r].pc = "insert"
                       /\ \E fail \in BOOLEAN : Persist(r, fail)
    \/ \E r \in Reqs : /\ req[r].pc = "fanout"
                       /\ \E fail \in BOOLEAN : Fanout(r, fail)
    \/ \E r \in Reqs : /\ req[r].pc = "mapping"
                       /\ \E fail \in BOOLEAN : MappingHGet(r, fail)
    \/ \E c \in Clients : Rotate(c)

Spec == Init /\ [][Next]_vars

(***************************************************************************)
(* One AddGroupConversation request on its own, with the body it received  *)
(* kept in sent: the member resolution as a function of the requester and  *)
(* the candidate handles.                                                  *)
(***************************************************************************)
Received(r, decodes, body) ==
    sent' = IF ReadsBody(r)
            THEN [sent EXCEPT ![r] = [decoded |-> decodes, members |-> body]]
            ELSE sent

NextGroup ==
    \/ \E t \in Tokens, fail \in BOOLEAN : Start(1, "AddGroupConversation", t, fail)
    \/ \E decodes \in BOOLEAN, body \in Bodies :
          AuthVerify(1, decodes, body) /\ Received(1, decodes, body)
    \/ \E decodes \in BOOLEAN, body \in Bodies :
          CacheWrite(1, decodes, body) /\ Received(1, decodes, body)
    \/ \E fail \in BOOLEAN : Exists(1, fail)
    \/ \E fail \in BOOLEAN : HGet(1, fail)
    \/ \E fail \in BOOLEAN : Persist(1, fail)
    \/ \E fail \in BOOLEAN : Fanout(1, fail)

SpecGroup == Init /\ [][NextGroup]_vars

(***************************************************************************)
(* AddVerneMQACL requests on their own, running concurrently, while the    *)
(* endpoint rotates password hashes.                                       *)
(***************************************************************************)
NextACL ==
    \/ \E r \in Reqs : /\ req[r].pc = "idle"
                       /\ \E t \in Tokens, fail \in BOOLEAN :
                             Start(r, "AddVerneMQACL", t, fail)
    \/ \E r \in Reqs : AuthVerify(r, TRUE, << >>) /\ UNCHANGED sent
    \/ \E r \in Reqs : CacheWrite(r, TRUE, << >>) /\ UNCHANGED sent
    \/ \E r \in Reqs : /\ req[r].pc = "seed"
                       /\ \E fail \in BOOLEAN : Seed(r, fail)
    \/ \E c \in Clients : Rotate(c)

SpecACL == Init /\ [][NextACL]_vars

(***************************************************************************)
(* AddVerneMQACL requests served one after the other, then one            *)
(* AddGroupConversation request: the records of the members are created    *)
(* first, and nothing else touches them while the fan-out runs.            *)
(***************************************************************************)
NextFan ==
    \/ \E r \in Reqs :
          /\ req[r].pc = "idle"
          /\ \A q \in 1 .. r - 1 : req[q].pc = "done"
          /\ \E t \in Tokens, fail \in BOOLEAN :
                Start(r, IF r = MaxReqs THEN "AddGroupConversation"
                                        ELSE "AddVerneMQACL", t, fail)
    \/ \E r \in Reqs : /\ req[r].pc = "verify"
                       /\ \E decodes \in BOOLEAN, body \in Bodies :
                             AuthVerify(r, decodes, body) /\ UNCHANGED sent
    \/ \E r \in Reqs : /\ req[r].pc = "cachewrite"
                       /\ \E decodes \in BOOLEAN, body \in Bodies :
                             CacheWrite(r, decodes, body) /\ UNCHANGED sent
    \/ \E r \in Reqs : /\ req[r].pc = "seed"
                       /\ \E fail \in BOOLEAN : Seed(r, fail)
    \/ \E r \in Reqs, fail \in BOOLEAN : Exists(r, fail)
    \/ \E r \in Reqs, fail \in BOOLEAN : HGet(r, fail)
    \/ \E r \in Reqs, fail \in BOOLEAN : Persist(r, fail)
    \/ \E r \in Reqs : /\ req[r].pc = "fanout"
                       /\ \E fail \in BOOLEAN : Fanout(r, fail)

SpecFan == Init /\ [][NextFan]_vars

(***************************************************************************)
(* The MongoDBInterface methods on the ACL collection called directly, in  *)
(* any order and with any arguments, as the handlers and the reconciler    *)
(* may call them.  UpdateProfilesWithGroupACL is one UpdateOne call per     *)
(* member: request 1 runs it, and the other methods are called between its *)
(* iterations.                                                             *)
(***************************************************************************)
Topics == {"t/1", "t/2"}

Hashes == {7}

StoreGroupID == "g0"

MemberLists == UNION {[1 .. n -> Clients] : n \in 1 .. MaxMembers}

Called(method, userID, topic, passhash, members, err) ==
    lastCall' = [n |-> lastCall.n + 1, method |-> method, userID |-> userID,
                 topic |-> topic, passhash |-> passhash, members |-> members,
                 err |-> err]

StoreUnchanged == UNCHANGED <<uniqueIdx, groups, cache, ext, req, sent>>

CallAddProfileACL(c, fail) ==
    /\ lastCall.n < MaxCalls
    /\ MayFail(fail)
    /\ LET res == AddProfileACL(acl, NewVerneMQACL(c, UsernameOf(c), 0),
                                uniqueIdx, fail)
       IN /\ acl' = res.coll
          /\ Called("AddProfileACL", c, NoValue, 0, << >>, res.err)
    /\ CountFault(fail)
    /\ StoreUnchanged

CallAuthorizePublishing(c, topic, fail) ==
    /\ lastCall.n < MaxCalls
    /\ MayFail(fail)
    /\ LET res == AuthorizePublishing(acl, c, topic, fail)
       IN /\ acl' = res.coll
          /\ Called("AuthorizePublishing", c, topic, -1, << >>, res.err)
    /\ CountFault(fail)
    /\ StoreUnchanged

CallUpdatePassHash(c, h, fail) ==
    /\ lastCall.n < MaxCalls
    /\ MayFail(fail)
    /\ LET res == UpdatePassHash(acl, c, h, fail)
       IN /\ acl' = res.coll
          /\ Called("UpdatePassHash", c, NoValue, h, << >>, res.err)
    /\ CountFault(fail)
    /\ StoreUnchanged

\* UpdateProfilesWithGroupACL is called for a group conversation of the
\* members: its loop starts, Fanout runs its iterations.
CallUpdateProfilesWithGroupACL(members) ==
    /\ req[1].pc = "idle"
    /\ req' = [req EXCEPT ![1] =
                 [IdleReq EXCEPT !.handler = "AddGroupConversation",
                                 !.pc = "fanout", !.k = 1,
                                 !.conv = NewGroupConversation(StoreGroupID, "name",
                                                               members)]]
    /\ UNCHANGED <<uniqueIdx, acl, groups, cache, ext, faults, sent, lastCall>>

NextStore ==
    \/ \E c \in Clients, fail \in BOOLEAN : CallAddProfileACL(c, fail)
    \/ \E c \in Clients, topic \in Topics, fail \in BOOLEAN :
          CallAuthorizePublishing(c, topic, fail)
    \/ \E c \in Clients, h \in Hashes, fail \in BOOLEAN :
          CallUpdatePassHash(c, h, fail)
    \/ \E members \in MemberLists : CallUpdateProfilesWithGroupACL(members)
    \/ \E fail \in BOOLEAN : Fanout(1, fail)

SpecStore == Init /\ [][NextStore]_vars

(***************************************************************************)
(* Properties.                                                             *)
(***************************************************************************)
\* Number of documents of coll for client c.
RecordsOf(coll, c) == Cardinality({i \in 1 .. Len(coll) : coll[i].client_id = c})

\* Number of entries of the array a that carry pattern p.
Grants(a, p) == Cardinality({i \in 1 .. Len(a) : a[i].pattern = p})

NoDuplicates(seq) == \A i, j \in 1 .. Len(seq) : seq[i] = seq[j] => i = j

SetOf(seq) == {seq[i] : i \in 1 .. Len(seq)}

Done(r) == req[r].pc = "done"

\* C1: in every reachable state the access-control store holds at most one
\* ACLRecord per clientID.
C1_OneRecordPerClient == \A c \in Clients : RecordsOf(acl, c) <= 1

\* C2: of two AddProfileACL calls for the same clientID that the store
\* answered, one succeeds and the other fails with Conflict, and the store
\* keeps exactly one ACLRecord for that clientID.
C2_SecondCreateConflicts ==
    \A r1, r2 \in Reqs :
        (/\ r1 # r2
         /\ Done(r1) /\ Done(r2)
         /\ "AddProfileACL" \in req[r1].calls /\ "AddProfileACL" \in req[r2].calls
         /\ req[r1].info.ClientID = req[r2].info.ClientID
         /\ req[r1].errInsert # ErrUnavailable /\ req[r2].errInsert # ErrUnavailable)
        => /\ {req[r1].errInsert, req[r2].errInsert} = {Nil, ErrDuplicateKey}
           /\ RecordsOf(acl, req[r1].info.ClientID) = 1

\* C3: an AddVerneMQACL request whose authentication check yields an
\* error, Updated or Cached ends as soon as the check returns (for Updated
\* after the cache write), without a call of AddProfileACL or of any other
\* store operation, and without reporting success.
C3_SeedOnlyOnFresh ==
    \A r \in Reqs :
        (req[r].handler = "AddVerneMQACL" /\ req[r].outcome \in {"Error", "Updated", "Cached"})
        => /\ Done(r) \/ (req[r].pc = "cachewrite" /\ req[r].outcome = "Updated")
           /\ req[r].calls = {}
           /\ req[r].resp # CodeSuccess

\* C3, witness: an AddVerneMQACL request got Updated after an earlier
\* request had seeded the ACLRecord of the same client.
C3_Witness ==
    \E r \in Reqs :
        /\ req[r].handler = "AddVerneMQACL" /\ req[r].outcome = "Updated" /\ Done(r)
        /\ RecordsOf(acl, req[r].info.ClientID) = 1

\* C4: a request of any handler that got a Fresh outcome and met no
\* lower-level failure ends with an ACLRecord of its clientID in the store.
C4_FreshAlwaysSeeds ==
    \A r \in Reqs :
        (Done(r) /\ req[r].outcome = "Fresh" /\ faults = 0)
        => RecordsOf(acl, req[r].info.ClientID) >= 1

\* C5: an AddVerneMQACL request whose AddProfileACL failed with Conflict
\* does not end with a failure the caller sees.
C5_ConflictNotFatal ==
    \A r \in Reqs :
        (Done(r) /\ "AddProfileACL" \in req[r].calls /\ req[r].errInsert = ErrDuplicateKey)
        => req[r].resp = CodeSuccess

\* C6: a request whose authentication check yielded Updated performs no
\* store write (ACL seeding, group conversation insert, ACL grant).
C6_UpdatedAborts ==
    \A r \in Reqs : req[r].outcome = "Updated" => req[r].calls = {}

\* The clientIDs the handles of a body that have a mapping resolve to.
ResolvedSet(handles) ==
    {MappingOf(handles[i]) : i \in {j \in 1 .. Len(handles) : MappingOf(handles[j]) # NoValue}}

\* The member list a request builds call by call is the one the member
\* loop yields as a function of the body and the requester.
MemberLoopAgrees ==
    "AddGroupConversation" \in req[1].calls =>
        req[1].conv.members
          = GroupMembers(ResolveMembers(sent[1].members, req[1].info.ClientID,
                                        0, "Exists").members,
                         req[1].info.ClientID)

\* C7: a group creation whose body decoded and that met no lower-level
\* failure succeeds whatever handles have no mapping, and the members of the
\* persisted GroupConversation are, as a set, the clientIDs the handles with
\* a mapping resolve to, and the requester.
C7_MemberSet ==
    /\ "AddGroupConversation" \in req[1].calls
         => /\ SetOf(req[1].conv.members)
                 = ResolvedSet(sent[1].members) \cup {req[1].info.ClientID}
            /\ req[1].errInsert = Nil
                 => \E i \in 1 .. Len(groups) : groups[i] = req[1].conv
    /\ (Done(1) /\ sent[1].decoded /\ faults = 0)
         => /\ req[1].resp = CodeSuccess
            /\ "AddGroupConversation" \in req[1].calls

\* C7, witness: a group was created by u1 from a body that names a handle
\* with no mapping and a handle of u2.
C7_Witness ==
    /\ Done(1) /\ req[1].resp = CodeSuccess
    /\ SetOf(sent[1].members) = {"a", "ghost"}
    /\ req[1].info.ClientID = "u1"
    /\ SetOf(req[1].conv.members) = {"u1", "u2"}
    /\ Len(groups) = 1

\* C8: the member list of every persisted GroupConversation has no
\* duplicates.
C8_NoDuplicateMembers ==
    \A i \in 1 .. Len(groups) : NoDuplicates(groups[i].members)

\* C9: every grant of a group creation that succeeds on a member that has
\* an ACLRecord leaves that record with exactly one publish grant for the
\* member's own slot of the group and exactly one subscribe grant for the
\* group's wildcard.
C9_OnePairPerMember ==
    [][\A r \in Reqs :
        (/\ req[r].pc = "fanout"
         /\ "UpdateProfilesWithGroupACL" \in req'[r].calls
         /\ req'[r].resp # CodeInvalidToken
         /\ req'[r] # req[r]
         /\ FindOne(acl, req[r].conv.members[req[r].k]) # 0)
        => LET m == req[r].conv.members[req[r].k]
               i == FindOne(acl', m)
               g == req[r].conv.id
           IN /\ Grants(acl'[i].publish_acl,
                        GroupConversationTopicPath \o g \o "/" \o m) = 1
              /\ Grants(acl'[i].subscribe_acl,
                        GroupConversationTopicPath \o g \o "/+") = 1]_vars

\* C10: a group creation whose AddGroupConversation on the store failed
\* does not report success.
C10_PersistErrorReturned ==
    \A r \in Reqs :
        (Done(r) /\ req[r].handler = "AddGroupConversation" /\ req[r].errInsert # Nil)
        => req[r].resp # CodeSuccess

\* Number of positions before k at which the member list holds c.
PositionsBefore(members, c, k) ==
    Cardinality({j \in 1 .. k - 1 : j <= Len(members) /\ members[j] = c})

\* The fan-out of request r is at its k-th grant and the store fails it.
GrantFails(r) ==
    /\ req[r].pc = "fanout"
    /\ req'[r].pc # "fanout" \/ req'[r].k # req[r].k
    /\ faults' = faults + 1

\* C11: when the grant for the k-th member of a group conversation fails,
\* the store is left as it was before that grant: every member that has an
\* ACLRecord holds one publish and one subscribe grant of the group per
\* position it has among members 1..k-1 and none for a later position, the
\* GroupConversation record that was inserted is still in the store, and
\* the request ends there with the error response.
C11_FanoutNotCompensated ==
    [][\A r \in Reqs :
         GrantFails(r) =>
            LET conv == req[r].conv
                k == req[r].k
            IN /\ acl' = acl
               /\ \A c \in Clients :
                     LET i == FindOne(acl', c) IN
                     i # 0 =>
                        /\ Grants(acl'[i].publish_acl,
                                  GroupConversationTopicPath \o conv.id \o "/" \o c)
                              = PositionsBefore(conv.members, c, k)
                        /\ Grants(acl'[i].subscribe_acl,
                                  GroupConversationTopicPath \o conv.id \o "/+")
                              = PositionsBefore(conv.members, c, k)
               /\ req[r].errInsert = Nil =>
                     /\ \E g \in 1 .. Len(groups') : groups'[g] = conv
                     /\ groups' = groups
               /\ req'[r].pc = "done"
               /\ req'[r].k = k
               /\ req'[r].resp = CodeInvalidToken]_vars

\* A fan-out has failed at its second grant after the first one was
\* applied to an existing ACLRecord, which still holds it.
C11_Witness ==
    \E r \in Reqs :
        /\ Done(r)
        /\ req[r].handler = "AddGroupConversation"
        /\ req[r].resp = CodeInvalidToken
        /\ req[r].errInsert = Nil
        /\ req[r].k = 2
        /\ "UpdateProfilesWithGroupACL" \in req[r].calls
        /\ LET i == FindOne(acl, req[r].conv.members[1]) IN
              /\ i # 0
              /\ Grants(acl[i].subscribe_acl,
                        GroupConversationTopicPath \o req[r].conv.id \o "/+") = 1
        /\ \E g \in 1 .. Len(groups) : groups[g] = req[r].conv

\* Request r is at the step in which auth.CheckAuthentication returns.
VerifyStep(r) == req[r].pc = "verify" /\ req'[r].pc # "verify"

\* What the endpoint answers now for the credential of request r.
Answer(r) == Verify(req[r].token, ext)

\* C12: for a credential with no cache entry the reconciler returns Fresh
\* with the identity the endpoint gave, all fields populated, or the
\* invalid-credential error; it never returns Cached or Updated.
C12_MissIsFreshOrInvalid ==
    [][\A r \in Reqs :
         (VerifyStep(r) /\ req[r].seen = NoEntry) =>
            \/ /\ req'[r].outcome = "Fresh"
               /\ req'[r].info = Answer(r).info
               /\ req'[r].info.ClientID \in Clients
               /\ req'[r].info.Username # NoValue
               /\ req'[r].info.Password >= 0
            \/ /\ req'[r].outcome = "Error"
               /\ Answer(r).err # Nil]_vars

\* A request whose credential was not cached has been answered Fresh and
\* another one the invalid-credential error.
C12_Witness ==
    \E r1, r2 \in Reqs :
        /\ req[r1].outcome = "Fresh" /\ req[r1].info.ClientID = "u1"
        /\ req[r2].outcome = "Error" /\ req[r2].token = "tX"

\* C13: when the endpoint rejects the credential, the request ends at once
\* with the invalid-token response: the cache, the ACL collection and the
\* group collection are left as they were and no store method was called.
C13_RejectedChangesNothing ==
    [][\A r \in Reqs :
         (VerifyStep(r) /\ Answer(r).err # Nil) =>
            /\ cache' = cache
            /\ acl' = acl
            /\ groups' = groups
            /\ req'[r].pc = "done"
            /\ req'[r].resp = CodeInvalidToken
            /\ req'[r].calls = {}]_vars

\* A rejected credential has been answered while the store holds a record
\* and the cache an entry of another request; its own token is not cached.
C13_Witness ==
    \E r \in Reqs :
        /\ Done(r)
        /\ req[r].token = "tX"
        /\ req[r].outcome = "Error"
        /\ req[r].resp = CodeInvalidToken
        /\ cache["tX"] = NoEntry
        /\ Len(acl) = 1
        /\ \E t \in Tokens : cache[t] # NoEntry

\* C14: when the cached password hash of a credential differs from the one
\* the endpoint returns, the reconciler decides Updated and its next call
\* writes the endpoint's value to the cache, which holds it when the
\* reconciler returns; a following reconciliation of the credential
\* against the unchanged endpoint returns Cached.
C14_ChangedHashIsUpdated ==
    [][\A r \in Reqs :
         /\ (/\ VerifyStep(r)
             /\ req[r].seen # NoEntry
             /\ Answer(r).err = Nil
             /\ req[r].seen.passhash # Answer(r).info.Password) =>
               /\ req'[r].outcome = "Updated"
               /\ req'[r].info = Answer(r).info
               /\ req'[r].pc = "cachewrite"
         /\ (/\ req[r].outcome = "Updated"
             /\ req[r].pc = "cachewrite"
             /\ req'[r].pc # "cachewrite") =>
               /\ cache'[req[r].token] = EntryOf(req[r].info)
               /\ Answer(r).info = req[r].info =>
                     Reconcile(cache'[req[r].token],
                               Verify(req[r].token, ext')).outcome = "Cached"]_vars

\* A request has been answered Updated after a rotation and the cache
\* holds the rotated hash.
C14_Witness ==
    \E r \in Reqs :
        /\ req[r].outcome = "Updated"
        /\ req[r].pc # "cachewrite"
        /\ ext[req[r].info.ClientID] = 1
        /\ cache[req[r].token].passhash = 1

\* When the cache entry a request read is exactly what the endpoint
\* answers, the reconciler returns Cached with that identity and the step
\* writes neither the cache nor the store.  The answer of the endpoint is
\* what the entry is compared with.
MatchingEntryWritesNothing ==
    [][\A r \in Reqs :
         (/\ VerifyStep(r)
          /\ req[r].seen # NoEntry
          /\ Answer(r).err = Nil
          /\ req[r].seen = EntryOf(Answer(r).info)) =>
            /\ req'[r].outcome = "Cached"
            /\ req'[r].info = Answer(r).info
            /\ cache' = cache
            /\ acl' = acl
            /\ groups' = groups
            /\ req'[r].calls = {}]_vars

\* The step is a direct call of method.
StoreCall(method) ==
    /\ lastCall'.n = lastCall.n + 1
    /\ lastCall'.method = method

\* C16: a call of AuthorizePublishing that the store serves for a client
\* that has a record appends the pattern to the publish list of that
\* record, whatever the list holds: the list grows by one entry and holds
\* one more copy of the pattern after every call, and nothing else changes.
C16_AuthorizePublishingAppends ==
    [][(/\ StoreCall("AuthorizePublishing")
        /\ faults' = faults
        /\ FindOne(acl, lastCall'.userID) # 0) =>
          LET i == FindOne(acl, lastCall'.userID)
              topic == lastCall'.topic
          IN /\ lastCall'.err = Nil
             /\ acl'[i].publish_acl
                  = Append(acl[i].publish_acl, [kind |-> "string", pattern |-> topic])
             /\ Grants(acl'[i].publish_acl, topic)
                  = Grants(acl[i].publish_acl, topic) + 1
             /\ acl' = [acl EXCEPT ![i].publish_acl = acl'[i].publish_acl]]_vars

\* Two calls with the same client and pattern have left two copies.
C16_Witness ==
    /\ lastCall.method = "AuthorizePublishing"
    /\ lastCall.err = Nil
    /\ \E i \in 1 .. Len(acl) :
          /\ acl[i].client_id = lastCall.userID
          /\ Grants(acl[i].publish_acl, lastCall.topic) = 2

\* C17: a call of UpdatePassHash that the store serves returns no error;
\* for a client without a record it leaves the collection as it was, and
\* for a client with a record it changes the passhash of that record and
\* nothing else.
C17_UpdatePassHashSingleField ==
    [][(StoreCall("UpdatePassHash") /\ faults' = faults) =>
          LET i == FindOne(acl, lastCall'.userID) IN
          /\ lastCall'.err = Nil
          /\ i = 0 => acl' = acl
          /\ i # 0 => acl' = [acl EXCEPT ![i].passhash = lastCall'.passhash]]_vars

\* UpdatePassHash has returned no error for a client without a record, the
\* collection holding another client's record with grants.
C17_Witness ==
    /\ lastCall.method = "UpdatePassHash"
    /\ lastCall.err = Nil
    /\ FindOne(acl, lastCall.userID) = 0
    /\ \E i \in 1 .. Len(acl) : Len(acl[i].publish_acl) > 0

\* UpdatePassHash has set the passhash of a record that holds grants.
C17_WitnessExisting ==
    /\ lastCall.method = "UpdatePassHash"
    /\ lastCall.err = Nil
    /\ \E i \in 1 .. Len(acl) :
          /\ acl[i].client_id = lastCall.userID
          /\ acl[i].passhash = lastCall.passhash
          /\ Len(acl[i].publish_acl) > 0

\* C18: UpdateProfilesWithGroupACL creates no ACLRecord: each of its
\* iterations leaves the collection with the same clients in the same
\* places, a member without a record is given nothing, and unless the
\* store fails the call goes through every member and returns no error
\* whether or not every member has a record.
C18_GroupACLCreatesNoRecord ==
    [][(req[1].pc = "fanout" /\ req'[1] # req[1]) =>
          /\ Len(acl') = Len(acl)
          /\ \A i \in 1 .. Len(acl) : acl'[i].client_id = acl[i].client_id
          /\ FindOne(acl, req[1].conv.members[req[1].k]) = 0 => acl' = acl
          /\ faults' = faults =>
                IF req[1].k = Len(req[1].conv.members)
                THEN req'[1].pc = "done" /\ req'[1].resp = CodeSuccess
                ELSE req'[1].pc = "fanout" /\ req'[1].k = req[1].k + 1]_vars

\* UpdateProfilesWithGroupACL has returned no error for a member list of
\* which one member has a record, holding the grant, and another had none
\* when its turn came and holds no grant.
C18_Witness ==
    /\ Done(1)
    /\ req[1].resp = CodeSuccess
    /\ req[1].conv.id = StoreGroupID
    /\ \E j, k \in 1 .. Len(req[1].conv.members) :
          /\ LET i == FindOne(acl, req[1].conv.members[j]) IN
                i # 0 => Grants(acl[i].subscribe_acl,
                                GroupConversationTopicPath \o StoreGroupID \o "/+") = 0
          /\ LET i == FindOne(acl, req[1].conv.members[k]) IN
                /\ i # 0
                /\ Grants(acl[i].subscribe_acl,
                          GroupConversationTopicPath \o StoreGroupID \o "/+") > 0

\* Request r is at a Redis call of the member loop and the call fails.
RedisFails(r) ==
    /\ req[r].pc \in {"exists", "hget"}
    /\ req'[r] # req[r]
    /\ faults' = faults + 1

\* C19: an AddGroupConversation request in which Exists or HGet fails for
\* a candidate, at whatever position, ends there with the error response;
\* no store method has been called before, and the failing step stores no
\* group conversation and touches no ACLRecord.
C19_RedisFailureBeforeStore ==
    [][\A r \in Reqs :
         /\ req[r].pc \in {"exists", "hget"} => req[r].calls = {}
         /\ RedisFails(r) =>
               /\ req'[r].pc = "done"
               /\ req'[r].resp = CodeInvalidJSON
               /\ req'[r].calls = {}
               /\ req'[r].conv = NoConv
               /\ groups' = groups
               /\ acl' = acl]_vars

\* A Redis call has failed for a body of two candidates that both have a
\* mapping, the first one of another client, and the request has ended
\* with the error and without a store call.
C19_Witness ==
    /\ Done(1)
    /\ req[1].resp = CodeInvalidJSON
    /\ faults = 1
    /\ sent[1].decoded
    /\ Len(sent[1].members) = 2
    /\ RedisExists(sent[1].members[1])
    /\ RedisHGet(sent[1].members[1]) # req[1].info.ClientID
    /\ RedisExists(sent[1].members[2])
    /\ req[1].calls = {}

====
